---- MODULE Spec2Model ----
(***************************************************************************)
(* Model of demo_app/app.py: the kit-to-catalog matching and video ranking *)
(* script.  Text is modelled as sequences of one-character strings so that *)
(* canon, str.lower, str.strip and keyify act on characters as the Python  *)
(* code does.                                                              *)
(***************************************************************************)
EXTENDS Integers, Sequences, FiniteSets, TLC

VARIABLES
    kpc, recA, recB, keyA, keyB,        \* the composite-key specification
    catalog, content_df, content_source, sim,   \* data loaded at start-up
    pc,                                 \* position of the script
    kit_cols, kit_rows,                 \* the uploaded kit: header and rows
    min_score, runs, prev,              \* slider value, script runs, last run's result
    matched_all, matched_keep,          \* results of match_kit_to_catalog
    owned_keys, hits, rank,             \* owned-key set, hit rows, video ranking
    cards, report                       \* complementary lists shown and exported

keyvars == <<kpc, recA, recB, keyA, keyB>>

loadvars == <<catalog, content_df, content_source, sim>>

kitvars == <<kit_cols, kit_rows>>

matchvars == <<matched_all, matched_keep>>

vars == <<kpc, recA, recB, keyA, keyB, catalog, content_df, content_source, sim,
          pc, kit_cols, kit_rows, min_score, runs, prev, matched_all, matched_keep,
          owned_keys, hits, rank, cards, report>>

rankvars == <<owned_keys, hits, rank, cards, report>>

----------------------------------------------------------------------------
(* Text helpers *)

Upper == <<"A","B","C","D","E","F","G","H","I","J","K","L","M",
           "N","O","P","Q","R","S","T","U","V","W","X","Y","Z">>

Lowr == <<"a","b","c","d","e","f","g","h","i","j","k","l","m",
          "n","o","p","q","r","s","t","u","v","w","x","y","z">>

Range(s) == {s[i] : i \in 1..Len(s)}

\* the characters Python's \s and str.strip treat as whitespace (those modelled)
IsSpace(c) == c \in {" ", "\t"}

\* the lowercase letter of each uppercase letter
LowerMap == [c \in Range(Upper) |-> Lowr[CHOOSE i \in 1..26 : Upper[i] = c]]

LowerChar(c) == IF c \in DOMAIN LowerMap THEN LowerMap[c] ELSE c

\* str.lower()
lower(s) == [i \in 1..Len(s) |-> LowerChar(s[i])]

RECURSIVE LStrip(_)
LStrip(s) ==
    IF s # <<>> /\ IsSpace(Head(s)) THEN LStrip(Tail(s)) ELSE s

RECURSIVE RStrip(_)
RStrip(s) ==
    IF s # <<>> /\ IsSpace(s[Len(s)]) THEN RStrip(SubSeq(s, 1, Len(s) - 1)) ELSE s

\* str.strip()
strip(s) == RStrip(LStrip(s))

\* re.sub(r"\s+", " ", s): every maximal run of whitespace becomes one space
RECURSIVE CollapseWs(_)
CollapseWs(s) ==
    IF s = <<>> THEN <<>>
    ELSE IF IsSpace(Head(s))
         THEN <<" ">> \o CollapseWs(LStrip(Tail(s)))
         ELSE <<Head(s)>> \o CollapseWs(Tail(s))

canon(s) == strip(CollapseWs(s))

Bar == <<"|">>

keyify(brand, pname, ptype) ==
    lower(strip(brand \o Bar \o pname \o Bar \o ptype))

\* row.get(col, "") of a row held as a function from column names to cells
Get(r, col) == IF col \in DOMAIN r THEN r[col] ELSE <<>>

----------------------------------------------------------------------------
(* The three places a composite key is computed *)

Space == <<" ">>

\* one catalog row after the loader's normalisation
LoadCatalogRow(r) ==
    LET b == canon(r["Brand"])
        p == canon(r["Product Name"])
        t == canon(r["Product Type"])
    IN [Brand_n |-> b, PName_n |-> p, PType_n |-> t,
        prod_l |-> canon(lower(p \o Space \o t)),
        brand_l |-> lower(b)]

\* the key of a match result: keyify over the matched (canon-ed) catalog fields
MatchedKey(c) == keyify(c.Brand_n, c.PName_n, c.PType_n)

\* a catalog row as matched
CatalogKey(r) == MatchedKey(LoadCatalogRow(r))

\* a routine-schema content row
RoutineKey(r) ==
    keyify(Get(r, "brand"), Get(r, "product"), Get(r, "product_type"))

\* a mention-schema content row
MentionKey(r) ==
    keyify(Get(r, "Brand"), Get(r, "Product Name"), Get(r, "Product Type"))

Kinds == {"catalog", "routine", "mention"}

MkRow(kind, b, p, t) ==
    IF kind = "routine"
    THEN [c \in {"brand", "product", "product_type"} |->
            IF c = "brand" THEN b ELSE IF c = "product" THEN p ELSE t]
    ELSE [c \in {"Brand", "Product Name", "Product Type"} |->
            IF c = "Brand" THEN b ELSE IF c = "Product Name" THEN p ELSE t]

KeyOf(rec) ==
    CASE rec.kind = "catalog" -> CatalogKey(rec.row)
      [] rec.kind = "routine" -> RoutineKey(rec.row)
      [] rec.kind = "mention" -> MentionKey(rec.row)

\* the three raw fields of a record, whatever its schema
FieldsOf(rec) ==
    IF rec.kind = "routine"
    THEN <<rec.row["brand"], rec.row["product"], rec.row["product_type"]>>
    ELSE <<rec.row["Brand"], rec.row["Product Name"], rec.row["Product Type"]>>

\* the normalisation the claim speaks of: whitespace collapsed, trimmed, lowercased
Norm(s) == lower(canon(s))

NormFields(rec) == [i \in 1..3 |-> Norm(FieldsOf(rec)[i])]

\* raw field values for the key specification
KeyStrs ==
    { <<"a">>, <<"A">>, <<" ", "a">>, <<"a", " ", "b">>,
      <<"A", " ", " ", "B">>, <<"a", "\t", "b", " ">> }

KeyTypes == { <<>>, <<"T", " ">> }

NoKey == <<"?">>

\* the pipeline does not run in the composite-key specification
PipelineIdle ==
    /\ catalog = <<>>
    /\ content_df = <<>>
    /\ content_source = "routine"
    /\ sim = <<>>
    /\ pc = "idle"
    /\ kit_cols = <<>>
    /\ kit_rows = <<>>
    /\ min_score = 70
    /\ runs = 0
    /\ prev = <<>>
    /\ matched_all = <<>>
    /\ matched_keep = <<>>
    /\ owned_keys = {}
    /\ hits = <<>>
    /\ rank = <<>>
    /\ cards = <<>>
    /\ report = <<>>

pipevars == <<catalog, content_df, content_source, sim, pc, kit_cols, kit_rows,
              min_score, runs, prev, matched_all, matched_keep,
              owned_keys, hits, rank, cards, report>>

InitKey ==
    /\ PipelineIdle
    /\ kpc = "input"
    /\ recA \in { [kind |-> k, row |-> MkRow(k, b, p, t)] :
                    k \in Kinds, b \in KeyStrs, p \in KeyStrs, t \in KeyTypes }
    /\ recB \in { [kind |-> k, row |-> MkRow(k, b, p, t)] :
                    k \in Kinds, b \in KeyStrs, p \in KeyStrs, t \in KeyTypes }
    /\ keyA = NoKey
    /\ keyB = NoKey

ComputeKeys ==
    /\ kpc = "input"
    /\ keyA' = KeyOf(recA)
    /\ keyB' = KeyOf(recB)
    /\ kpc' = "keyed"
    /\ UNCHANGED <<recA, recB>>
    /\ UNCHANGED pipevars

NextKey == ComputeKeys

SpecKey == InitKey /\ [][NextKey]_vars

\* C1: two records whose brand, product name and product type are equal after
\* normalisation get the same composite key.
KeySymmetry ==
    (kpc = "keyed" /\ NormFields(recA) = NormFields(recB)) => keyA = keyB

----------------------------------------------------------------------------
(* Kit upload and match_kit_to_catalog *)

cBrand == <<"B","r","a","n","d">>

cProductName == <<"P","r","o","d","u","c","t"," ","N","a","m","e">>

cProduct == <<"P","r","o","d","u","c","t">>

cProductType == <<"P","r","o","d","u","c","t"," ","T","y","p","e">>

cType == <<"T","y","p","e">>

cShadeName == <<"S","h","a","d","e"," ","N","a","m","e">>

cShade == <<"S","h","a","d","e">>

\* find_col returning None
NoCol == <<>>

\* first pass of find_col: the first name that is a column as written
RECURSIVE FirstExact(_, _)
FirstExact(cols, names) ==
    IF names = <<>> THEN NoCol
    ELSE IF Head(names) \in Range(cols) THEN Head(names)
    ELSE FirstExact(cols, Tail(names))

\* low = {c.lower(): c for c in df.columns}: a later column overwrites an earlier
\* one with the same lowercased name
LowLookup(cols, l) ==
    LET I == {i \in 1..Len(cols) : lower(cols[i]) = l}
    IN cols[CHOOSE i \in I : \A j \in I : j <= i]

\* second pass of find_col
RECURSIVE FirstLow(_, _)
FirstLow(cols, names) ==
    IF names = <<>> THEN NoCol
    ELSE IF \E i \in 1..Len(cols) : lower(cols[i]) = lower(Head(names))
         THEN LowLookup(cols, lower(Head(names)))
         ELSE FirstLow(cols, Tail(names))

find_col(cols, names) ==
    LET e == FirstExact(cols, names)
    IN IF e # NoCol THEN e ELSE FirstLow(cols, names)

\* one kit row after the normalisation at the head of match_kit_to_catalog
NormKitRow(r, bcol, pcol, tcol, scol) ==
    LET b == canon(r[bcol])
        p == canon(r[pcol])
        t == IF tcol # NoCol THEN canon(r[tcol]) ELSE <<>>
        sh == IF scol # NoCol THEN canon(r[scol]) ELSE <<>>
    IN [Brand_n |-> b, PName_n |-> p, PType_n |-> t, Shade_n |-> sh,
        query_l |-> canon(lower(p \o Space \o t)),
        brand_l |-> lower(b)]

\* pool = cat[cat["brand_l"] == r["brand_l"]], or the whole catalog when that is empty
PoolFor(cat, brand_l) ==
    LET SameBrand(c) == c.brand_l = brand_l
        pool == SelectSeq(cat, SameBrand)
    IN IF pool = <<>> THEN cat ELSE pool

\* the scorer's result (in tenths) for a query and a choice
Score10(scorer, q, choice) == scorer[<<q, choice>>]

\* the last choice with the highest score instead of the first
ExtractLast(scorer, q, pool) ==
    CHOOSE i \in 1..Len(pool) :
        /\ \A j \in 1..Len(pool) : Score10(scorer, q, pool[j].prod_l) <= Score10(scorer, q, pool[i].prod_l)
        /\ \A j \in (i + 1)..Len(pool) : Score10(scorer, q, pool[j].prod_l) < Score10(scorer, q, pool[i].prod_l)

\* process.extractOne: the index of the first choice with the highest score
ExtractOne(scorer, q, pool) ==
    CHOOSE i \in 1..Len(pool) :
        /\ \A j \in 1..Len(pool) : Score10(scorer, q, pool[j].prod_l) <= Score10(scorer, q, pool[i].prod_l)
        /\ \A j \in 1..(i - 1) : Score10(scorer, q, pool[j].prod_l) < Score10(scorer, q, pool[i].prod_l)

\* pool[pool["prod_l"] == matched].iloc[0]
FirstWithProd(pool, matched) ==
    pool[CHOOSE i \in 1..Len(pool) :
            /\ pool[i].prod_l = matched
            /\ \A j \in 1..(i - 1) : pool[j].prod_l # matched]

\* int(res[1]) of a score held in tenths
IntScore(s10) == s10 \div 10

\* one iteration of the loop over kit rows: the result row for kit entry k
MatchOne(scorer, cat, k, idx) ==
    LET pool == PoolFor(cat, k.brand_l)
    IN IF pool # <<>>
       THEN LET best == ExtractOne(scorer, k.query_l, pool)
                matched == pool[best].prod_l
                crow == FirstWithProd(pool, matched)
            IN [idx |-> idx, Brand |-> k.Brand_n, PName |-> k.PName_n,
                PType |-> k.PType_n, Shade |-> k.Shade_n,
                MBrand |-> crow.Brand_n, MPName |-> crow.PName_n,
                MPType |-> crow.PType_n,
                Score |-> IntScore(Score10(scorer, k.query_l, matched)),
                key |-> MatchedKey(crow)]
       ELSE [idx |-> idx, Brand |-> k.Brand_n, PName |-> k.PName_n,
             PType |-> k.PType_n, Shade |-> k.Shade_n,
             MBrand |-> <<>>, MPName |-> <<>>, MPType |-> <<>>,
             Score |-> 0,
             key |-> keyify(<<>>, <<>>, <<>>)]

\* out: one result row per kit row
MatchAll(scorer, cat, cols, rows) ==
    LET bcol == find_col(cols, <<cBrand>>)
        pcol == find_col(cols, <<cProductName, cProduct>>)
        tcol == find_col(cols, <<cProductType, cType>>)
        scol == find_col(cols, <<cShadeName, cShade>>)
    IN [i \in 1..Len(rows) |->
            MatchOne(scorer, cat, NormKitRow(rows[i], bcol, pcol, tcol, scol), i)]

\* the comparison turned round
AcceptedBelow(r, t) == r.Score <= t

\* out_keep = out[out["Match Score"] >= min_score]
Accepted(r, t) == r.Score >= t

KeepRows(out, t) ==
    LET Ok(r) == Accepted(r, t)
    IN SelectSeq(out, Ok)

\* how match_kit_to_catalog ends: the ValueError of the column check, the
\* exception pandas raises when out = pd.DataFrame([]) has no "Match Score"
\* column to select on, or a normal return
MatchOutcome(cols, rows) ==
    IF find_col(cols, <<cBrand>>) = NoCol \/ find_col(cols, <<cProductName, cProduct>>) = NoCol
    THEN "InvalidInput"
    ELSE IF rows = <<>> THEN "FrameError"
    ELSE "matched"

----------------------------------------------------------------------------
(* Content loading *)

\* an empty numeric cell as pandas reads it, and the float to_float falls back to
NaN == -1

\* a time cell holding text that float() rejects
TextCell == -2

\* df.get(col, None) of a column the file does not have
NoneVal == -3

\* an empty step cell (NaN in an object column)
StepNaN == "<NaN>"

TimeCol(schema) == IF schema = "routine" THEN "time_start" ELSE "chunk_start"

\* one content row after load_catalog_and_content: videoId, key, time and step
\* (title, brand, product, product_type and shade are only displayed)
LoadContentRow(schema, cols, r, i) ==
    [row |-> i,
     videoId |-> r["videoId"],
     key |-> IF schema = "routine" THEN RoutineKey(r) ELSE MentionKey(r),
     time |-> IF TimeCol(schema) \in cols THEN r[TimeCol(schema)] ELSE NoneVal,
     step |-> IF "step" \in cols THEN r["step"] ELSE ""]

LoadContent(tbl) ==
    [i \in 1..Len(tbl.rows) |-> LoadContentRow(tbl.schema, tbl.cols, tbl.rows[i], i)]

LoadCatalog(raw) == [i \in 1..Len(raw) |-> LoadCatalogRow(raw[i])]

----------------------------------------------------------------------------
(* Intersection with content and video ranking *)

to_float(x) == IF x >= 0 THEN x ELSE NaN

\* df["sec"] = df["time"].map(to_float)
WithSec(df) ==
    [i \in 1..Len(df) |->
        [row |-> df[i].row, videoId |-> df[i].videoId, key |-> df[i].key,
         step |-> df[i].step, sec |-> to_float(df[i].time)]]

\* owned_keys = set(matched_keep["key"])
OwnedKeys(keep) == {keep[i].key : i \in 1..Len(keep)}

\* hits = df[df["key"].isin(owned_keys)]
IsHit(r, owned) == r.key \in owned

HitsOf(df, owned) ==
    LET H(r) == IsHit(r, owned)
    IN SelectSeq(df, H)

\* groupby("videoId", sort=False): the video ids in first-seen order
RECURSIVE VideoOrder(_)
VideoOrder(rows) ==
    IF rows = <<>> THEN <<>>
    ELSE LET v == Head(rows).videoId
             Other(r) == r.videoId # v
         IN <<v>> \o VideoOrder(SelectSeq(Tail(rows), Other))

GroupOf(rows, vid) ==
    LET Same(r) == r.videoId = vid
    IN SelectSeq(rows, Same)

\* g["key"].nunique()
UsedItems(g) == Cardinality({g[i].key : i \in 1..Len(g)})

\* g.get("step","").nunique() if "step" in g.columns else used: the loader has
\* added the step column when the file lacks it, so the first branch always runs;
\* nunique leaves NaN out
UsedSteps(g) == Cardinality({g[i].step : i \in 1..Len(g)} \ {StepNaN})

Max(a, b) == IF a >= b THEN a ELSE b

\* the division by the number of owned keys left out
CoverageDenOne(owned) == 1

\* max(1, len(owned_keys))
CoverageDen(owned) == Max(1, Cardinality(owned))

\* g["sec"].dropna()
DefinedSecs(g) ==
    LET D(r) == r.sec # NaN
        d == SelectSeq(g, D)
    IN [i \in 1..Len(d) |-> d[i].sec]

\* the number of elements of s that sort before position i (ties by position)
RankIn(s, i) ==
    Cardinality({j \in 1..Len(s) : s[j] < s[i] \/ (s[j] = s[i] /\ j < i)})

\* the k-th smallest element of s, k in 1..Len(s)
KthSmallest(s, k) == s[CHOOSE i \in 1..Len(s) : RankIn(s, i) = k - 1]

\* twice Series.median() of a non-empty series: the middle element, or the mean
\* of the two middle elements
Median2(s) ==
    LET n == Len(s)
    IN IF n % 2 = 1
       THEN 2 * KthSmallest(s, (n + 1) \div 2)
       ELSE KthSmallest(s, n \div 2) + KthSmallest(s, n \div 2 + 1)

EarlyLimit == 600

\* the boost given up to and including the limit
EarlyBoostUpTo(g) ==
    LET early == DefinedSecs(g)
    IN IF early # <<>> /\ Median2(early) <= 2 * EarlyLimit THEN 115 ELSE 100

\* early_boost in hundredths: 1.15 or 1.0
EarlyBoost100(g) ==
    LET early == DefinedSecs(g)
    IN IF early # <<>> /\ Median2(early) < 2 * EarlyLimit THEN 115 ELSE 100

\* score = (0.7*coverage + 0.3*(steps/10)) * early_boost as the exact fraction
\* ScoreNum / ScoreDen, in thousandths
ScoreNum(used, steps, den, boost100) == (70 * used + 3 * steps * den) * boost100

ScoreDen(den) == 10 * den

\* round(x, 3) in thousandths of x = num/den: to the nearest thousandth; when the
\* exact value lies halfway the float's representation error decides, so either
\* neighbour may result (up chooses)
Round3(num, den, up) ==
    LET fl == num \div den
        r2 == 2 * (num % den)
    IN IF r2 > den THEN fl + 1
       ELSE IF r2 < den THEN fl
       ELSE IF up THEN fl + 1 ELSE fl

\* whether num/den lies exactly halfway between two integers
Halfway(num, den) == 2 * (num % den) = den

\* the row appended to agg_rows for one video group
AggRow(vid, g, owned, upC, upS) ==
    LET used == UsedItems(g)
        steps == UsedSteps(g)
        den == CoverageDen(owned)
    IN [videoId |-> vid, used_items |-> used, used_steps |-> steps,
        coverage |-> Round3(1000 * used, den, upC),
        score |-> Round3(ScoreNum(used, steps, den, EarlyBoost100(g)), ScoreDen(den), upS)]

\* the tie-break on used_items ascending
SortsBeforeTieAsc(a, b) ==
    \/ a.score > b.score
    \/ (a.score = b.score /\ a.used_items < b.used_items)

\* sort_values(["score","used_items"], ascending=[False, False]): a before b
SortsBefore(a, b) ==
    \/ a.score > b.score
    \/ (a.score = b.score /\ a.used_items > b.used_items)

\* the stable sort of a sequence of aggregate rows
SortRank(rows) ==
    LET Pos(i) == Cardinality({j \in 1..Len(rows) :
                     \/ SortsBefore(rows[j], rows[i])
                     \/ (~SortsBefore(rows[i], rows[j]) /\ j < i)}) + 1
    IN [k \in 1..Len(rows) |-> rows[CHOOSE i \in 1..Len(rows) : Pos(i) = k]]

\* rank: one aggregate row per video group, sorted; UC and US are the videos
\* whose halfway coverage or score rounds up
RankOf(hitrows, owned, UC, US) ==
    LET order == VideoOrder(hitrows)
    IN SortRank([k \in 1..Len(order) |->
            AggRow(order[k], GroupOf(hitrows, order[k]), owned,
                   order[k] \in UC, order[k] \in US)])

\* the videos whose coverage, or score, is exactly halfway between two thousandths
CoverageTies(hitrows, owned) ==
    {v \in Range(VideoOrder(hitrows)) :
        Halfway(1000 * UsedItems(GroupOf(hitrows, v)), CoverageDen(owned))}

ScoreTies(hitrows, owned) ==
    {v \in Range(VideoOrder(hitrows)) :
        LET g == GroupOf(hitrows, v)
        IN Halfway(ScoreNum(UsedItems(g), UsedSteps(g), CoverageDen(owned), EarlyBoost100(g)),
                   ScoreDen(CoverageDen(owned)))}

----------------------------------------------------------------------------
(* Complementary products *)

\* the sort key of a mention: its sec, or 9e9 when sec is NaN (9e9 is written
\* 2000000000 here, above every timestamp of a real video, to stay within TLC's
\* integers)
NineE9 == 2000000000

SecKey(r) == IF r.sec # NaN THEN r.sec ELSE NineE9

\* sorted(comps, key=...): Python's sort is stable
SortBySec(rows) ==
    LET Pos(i) == Cardinality({j \in 1..Len(rows) :
                     \/ SecKey(rows[j]) < SecKey(rows[i])
                     \/ (SecKey(rows[j]) = SecKey(rows[i]) /\ j < i)}) + 1
    IN [k \in 1..Len(rows) |-> rows[CHOOSE i \in 1..Len(rows) : Pos(i) = k]]

\* no row is ever skipped
SeenNever(rows, i) == FALSE

\* the loop with `seen`: a row is kept when no earlier row has its key
SeenBefore(rows, i) == \E j \in 1..(i - 1) : rows[j].key = rows[i].key

RECURSIVE DedupeFrom(_, _)
DedupeFrom(rows, i) ==
    IF i > Len(rows) THEN <<>>
    ELSE IF SeenBefore(rows, i) THEN DedupeFrom(rows, i + 1)
    ELSE <<rows[i]>> \o DedupeFrom(rows, i + 1)

\* every mention of the video taken as complementary
IsCompAll(d, owned) == TRUE

\* comps = [d for d in all_items.get(vid, []) if d["key"] not in owned_keys]
IsComp(d, owned) == d.key \notin owned

CompsOf(df, vid, owned) ==
    LET C(d) == IsComp(d, owned)
    IN SelectSeq(GroupOf(df, vid), C)

\* the complementary entries written for one video
CompList(df, vid, owned) == DedupeFrom(SortBySec(CompsOf(df, vid, owned)), 1)

\* rank.head(30) of the cards and rank_df.head(50) of the report
CardsHead == 30

ReportHead == 50

Min(a, b) == IF a <= b THEN a ELSE b

\* the cards: for each of the first 30 ranked videos, its complementary entries
CardsOf(df, rk, owned) ==
    [k \in 1..Min(Len(rk), CardsHead) |->
        [videoId |-> rk[k].videoId, comps |-> CompList(df, rk[k].videoId, owned)]]

\* the complementary entries build_html_report writes for one video
ReportCompList(df, vid, owned) == DedupeFrom(SortBySec(CompsOf(df, vid, owned)), 1)

\* build_html_report: for each of the first 50 ranked videos, its complementary entries
ReportOf(df, rk, owned) ==
    [k \in 1..Min(Len(rk), ReportHead) |->
        [videoId |-> rk[k].videoId, comps |-> ReportCompList(df, rk[k].videoId, owned)]]

----------------------------------------------------------------------------
(* Inputs of the pipeline specification *)

MaxCat == 2

MaxKit == 2

MaxRuns == 2

SeqsUpTo(S, n) == UNION {[1..m -> S] : m \in 0..n}

CatRowDom ==
    { MkRow("catalog", <<"A">>, <<"p">>, <<>>),
      MkRow("catalog", <<" ", "a">>, <<"Q">>, <<>>),
      MkRow("catalog", <<"b">>, <<"p">>, <<>>) }

KitData ==
    { [b |-> <<"a">>, p |-> <<"P">>],
      [b |-> <<"A", " ">>, p |-> <<"q">>],
      [b |-> <<"c">>, p |-> <<"r">>] }

cBRAND == <<"B","R","A","N","D">>

PlainHeader == <<cBrand, cProductName>>

KitHeaders ==
    { PlainHeader,
      <<lower(cBrand), lower(cProduct), cType>>,
      <<lower(cBrand), cBRAND, cProduct, cProductName, cShade>>,
      <<cProductName, cProductType>>,
      <<cBrand, cType, cShadeName>> }

\* the cell a kit row holds in column c: its brand in a brand column, its product
\* in a product column, blanks in a type column, a shade name in a shade column
KitCell(c, d) ==
    LET l == lower(c)
    IN IF l = lower(cBrand) THEN (IF c = cBRAND THEN lower(d.b) ELSE d.b)
       ELSE IF l \in {lower(cProductName), lower(cProduct)} THEN d.p
       ELSE IF l \in {lower(cProductType), lower(cType)} THEN <<" ">>
       ELSE <<"n", "u", "d", "e">>

KitRowFor(h, d) == [c \in Range(h) |-> KitCell(c, d)]

\* scores in tenths: 69.5, 80.5 and 100
ScoreVals == {695, 805, 1000}

OffScores == {695, 805}

SliderValues == {50, 90}

\* the kits uploaded: any rows under the plain header, at most one row under the others
KitUploads ==
    ({PlainHeader} \X SeqsUpTo(KitData, MaxKit))
        \cup ((KitHeaders \ {PlainHeader}) \X SeqsUpTo(KitData, 1))

QueryStrs == { <<"p">>, <<"q">>, <<"r">> }

ProdStrs == { <<"p">>, <<"q">> }

\* the scorers considered: any function of the two strings that is symmetric and
\* gives 100 to identical strings, as fuzz.token_set_ratio does
Scorers ==
    { f \in [QueryStrs \X ProdStrs -> ScoreVals] :
        \A q \in QueryStrs, c \in ProdStrs :
            /\ IF q = c THEN f[<<q, c>>] = 1000 ELSE f[<<q, c>>] \in OffScores
            /\ <<c, q>> \in DOMAIN f => f[<<c, q>>] = f[<<q, c>>] }

RoutineCols == {"videoId", "brand", "product", "product_type", "time_start", "step"}

MentionCols == {"videoId", "Brand", "Product Name", "Product Type", "chunk_start", "step"}

RoutineRow(v, b, p, st, t) ==
    [c \in RoutineCols |->
        CASE c = "videoId" -> v
          [] c = "brand" -> b
          [] c = "product" -> p
          [] c = "product_type" -> <<>>
          [] c = "time_start" -> t
          [] c = "step" -> st]

MentionRow(v, b, p, st, t) ==
    [c \in MentionCols |->
        CASE c = "videoId" -> v
          [] c = "Brand" -> b
          [] c = "Product Name" -> p
          [] c = "Product Type" -> <<>>
          [] c = "chunk_start" -> t
          [] c = "step" -> st]

Restrict(r, cols) == [c \in cols |-> r[c]]

\* a content file: its schema, the columns it has, its rows
Table(schema, cols, rows) ==
    [schema |-> schema, cols |-> cols,
     rows |-> [i \in 1..Len(rows) |-> Restrict(rows[i], cols)]]

ContentTables ==
    { Table("routine", RoutineCols,
            << RoutineRow("v1", <<"A">>, <<"p">>, "s1", 100),
               RoutineRow("v1", <<"z">>, <<"z">>, "s2", 700),
               RoutineRow("v2", <<"a">>, <<"q">>, StepNaN, NaN) >>),
      Table("mentions", MentionCols \ {"step", "chunk_start"},
            << MentionRow("v1", <<"b">>, <<"p">>, "", NaN),
               MentionRow("v1", <<"z">>, <<"z">>, "", NaN) >>),
      Table("routine", RoutineCols,
            << RoutineRow("v1", <<"z">>, <<"z">>, "s1", TextCell) >>) }

NoPrev == [t |-> 0, outcome |-> "none", all |-> <<>>, keep |-> <<>>]

----------------------------------------------------------------------------
(* The script *)

\* before any upload: catalog and content are loaded, the script has stopped at
\* "if kit_file is None"
Init ==
    /\ kpc = "idle" /\ recA = <<>> /\ recB = <<>> /\ keyA = NoKey /\ keyB = NoKey
    /\ catalog \in {LoadCatalog(raw) : raw \in SeqsUpTo(CatRowDom, MaxCat)}
    /\ \E tbl \in ContentTables :
          /\ content_df = LoadContent(tbl)
          /\ content_source = tbl.schema
    /\ sim \in Scorers
    /\ pc = "await_kit"
    /\ kit_cols = <<>>
    /\ kit_rows = <<>>
    /\ min_score = 70
    /\ runs = 0
    /\ prev = NoPrev
    /\ matched_all = <<>>
    /\ matched_keep = <<>>
    /\ owned_keys = {}
    /\ hits = <<>>
    /\ rank = <<>>
    /\ cards = <<>>
    /\ report = <<>>

\* the user drops a kit CSV; the script runs with the slider at its default
Upload ==
    /\ pc = "await_kit"
    /\ \E u \in KitUploads :
          /\ kit_cols' = u[1]
          /\ kit_rows' = [i \in 1..Len(u[2]) |-> KitRowFor(u[1], u[2][i])]
    /\ pc' = "match"
    /\ runs' = 1
    /\ UNCHANGED <<min_score, prev, matched_all, matched_keep>>
    /\ UNCHANGED rankvars
    /\ UNCHANGED loadvars
    /\ UNCHANGED keyvars

\* matched_all, matched_keep = match_kit_to_catalog(kit_raw, catalog, min_score)
Match ==
    /\ pc = "match"
    /\ LET outcome == MatchOutcome(kit_cols, kit_rows)
       IN IF outcome = "matched"
          THEN /\ matched_all' = MatchAll(sim, catalog, kit_cols, kit_rows)
               /\ matched_keep' = KeepRows(matched_all', min_score)
               /\ pc' = "intersect"
          ELSE /\ pc' = outcome
               /\ UNCHANGED <<matched_all, matched_keep>>
    /\ UNCHANGED <<min_score, runs, prev>>
    /\ UNCHANGED rankvars
    /\ UNCHANGED kitvars
    /\ UNCHANGED loadvars
    /\ UNCHANGED keyvars

\* owned_keys, df["sec"], hits, and the stop when there are no hits
Intersect ==
    /\ pc = "intersect"
    /\ owned_keys' = OwnedKeys(matched_keep)
    /\ hits' = HitsOf(WithSec(content_df), owned_keys')
    /\ pc' = IF hits' = <<>> THEN "NoOverlap" ELSE "rank"
    /\ UNCHANGED <<min_score, runs, prev, matched_all, matched_keep, rank, cards, report>>
    /\ UNCHANGED kitvars
    /\ UNCHANGED loadvars
    /\ UNCHANGED keyvars

\* the loop over video groups and the sort
RankVideos ==
    /\ pc = "rank"
    /\ \E UC \in SUBSET CoverageTies(hits, owned_keys),
          US \in SUBSET ScoreTies(hits, owned_keys) :
          rank' = RankOf(hits, owned_keys, UC, US)
    /\ pc' = "cards"
    /\ UNCHANGED <<min_score, runs, prev, matched_all, matched_keep, owned_keys, hits, cards, report>>
    /\ UNCHANGED kitvars
    /\ UNCHANGED loadvars
    /\ UNCHANGED keyvars

\* the cards loop
Cards ==
    /\ pc = "cards"
    /\ cards' = CardsOf(WithSec(content_df), rank, owned_keys)
    /\ pc' = "report"
    /\ UNCHANGED <<min_score, runs, prev, matched_all, matched_keep, owned_keys, hits, rank, report>>
    /\ UNCHANGED kitvars
    /\ UNCHANGED loadvars
    /\ UNCHANGED keyvars

\* html_str = build_html_report(rank, hits, df, owned_keys)
Report ==
    /\ pc = "report"
    /\ report' = ReportOf(WithSec(content_df), rank, owned_keys)
    /\ pc' = "done"
    /\ UNCHANGED <<min_score, runs, prev, matched_all, matched_keep, owned_keys, hits, rank, cards>>
    /\ UNCHANGED kitvars
    /\ UNCHANGED loadvars
    /\ UNCHANGED keyvars

\* the user moves the "Min match score" slider: the script runs again from the
\* top with the same kit file and the cached catalog and content
Rerun ==
    /\ pc \in {"InvalidInput", "FrameError", "NoOverlap", "done"}
    /\ runs < MaxRuns
    /\ \E t \in SliderValues : min_score' = t
    /\ prev' = [t |-> min_score, outcome |-> pc, all |-> matched_all, keep |-> matched_keep]
    /\ runs' = runs + 1
    /\ pc' = "match"
    /\ matched_all' = <<>>
    /\ matched_keep' = <<>>
    /\ owned_keys' = {}
    /\ hits' = <<>>
    /\ rank' = <<>>
    /\ cards' = <<>>
    /\ report' = <<>>
    /\ UNCHANGED kitvars
    /\ UNCHANGED loadvars
    /\ UNCHANGED keyvars

Next == Upload \/ Match \/ Intersect \/ RankVideos \/ Cards \/ Report \/ Rerun

Spec == Init /\ [][Next]_vars

----------------------------------------------------------------------------
(* The ranking specification: the script from the point where                *)
(* match_kit_to_catalog has returned, over larger content files.  The kit    *)
(* holds n catalog products exactly, so the owned keys are those n products. *)

MaxOwned == 6

MaxItems == 3

MaxSteps == 8

MaxRows == 3

MaxDeep == 11

Digits == <<"1", "2", "3", "4", "5", "6", "7", "8", "9">>

\* product names p1, p2, ... and step labels
Prod(i) == <<"p", Digits[i]>>

StepNames ==
    <<"s1", "s2", "s3", "s4", "s5", "s6", "s7", "s8", "s9", "s10", "s11", "s12", "s13">>

OwnBrand == <<"b">>

OwnedCatalog(n) == [i \in 1..n |-> MkRow("catalog", OwnBrand, Prod(i), <<>>)]

OwnedKit(n) == [i \in 1..n |-> KitRowFor(PlainHeader, [b |-> OwnBrand, p |-> Prod(i)])]

\* a scorer over the product names: 100 for identical strings, 50 otherwise
ExactScorer(n) ==
    [x \in {Prod(i) : i \in 1..n} \X {Prod(i) : i \in 1..n} |->
        IF x[1] = x[2] THEN 1000 ELSE 500]

\* content files with a step column: rows over two videos and two products
StepRows ==
    { RoutineRow(v, OwnBrand, p, st, 100) :
        v \in {"v1", "v2"}, p \in {Prod(1), Prod(2)}, st \in {StepNaN, "s1", "s2"} }

\* content files without a step column (mention schema)
NoStepRows ==
    { MentionRow(v, OwnBrand, p, "", t) :
        v \in {"v1", "v2"}, p \in {Prod(1), Prod(2)}, t \in {100, TextCell} }

\* content files with owned and other products at various times
TimeRows ==
    { RoutineRow("v1", OwnBrand, p, "s1", t) :
        p \in {Prod(1), <<"x">>, <<"y">>}, t \in {NaN, 100, 700} }
      \cup { RoutineRow("v2", OwnBrand, Prod(1), "s1", 100) }

\* a time cell holding a number above 9e9 (1e10, or inf)
Beyond == NineE9 + 1

\* content files of one video: an owned product early or at the 600 s limit,
\* and other products at a late time, at a time above 9e9, or without a time
LateRows ==
    { RoutineRow("v1", OwnBrand, p, "s1", t) :
        p \in {<<"x">>, <<"y">>}, t \in {NaN, 700, Beyond} }
      \cup { RoutineRow("v1", OwnBrand, Prod(1), "s1", t) : t \in {100, EarlyLimit} }

\* the rows of one video that mentions u owned products under s distinct steps,
\* all at time t: row j names product min(j,u) and step min(j,s), no step when s = 0
WideVideo(v, u, s, t) ==
    [j \in 1..Max(u, s) |->
        RoutineRow(v, OwnBrand, Prod(Min(j, u)),
                   IF s = 0 THEN StepNaN ELSE StepNames[Min(j, s)], t)]

\* an early video followed by a late one
WideTable(u1, s1, u2, s2) ==
    Table("routine", RoutineCols,
          WideVideo("v1", u1, s1, 100) \o WideVideo("v2", u2, s2, 700))

\* one video whose hits carry many distinct step labels
DeepTable(u, s, t) == Table("routine", RoutineCols, WideVideo("v1", u, s, t))

\* the state in which match_kit_to_catalog has returned for a kit of n catalog
\* products at the default threshold
Matched(n, tbl) ==
    /\ kpc = "idle" /\ recA = <<>> /\ recB = <<>> /\ keyA = NoKey /\ keyB = NoKey
    /\ catalog = LoadCatalog(OwnedCatalog(n))
    /\ content_df = LoadContent(tbl)
    /\ content_source = tbl.schema
    /\ sim = ExactScorer(n)
    /\ pc = "intersect"
    /\ kit_cols = PlainHeader
    /\ kit_rows = OwnedKit(n)
    /\ min_score = 70
    /\ runs = 1
    /\ prev = NoPrev
    /\ matched_all = MatchAll(sim, catalog, kit_cols, kit_rows)
    /\ matched_keep = KeepRows(matched_all, min_score)
    /\ owned_keys = {}
    /\ hits = <<>>
    /\ rank = <<>>
    /\ cards = <<>>
    /\ report = <<>>

InitRank ==
    \/ \E n \in 1..2, m \in 1..MaxRows : \E rows \in [1..m -> StepRows] :
          Matched(n, Table("routine", RoutineCols, rows))
    \/ \E n \in 1..2, m \in 1..MaxRows : \E rows \in [1..m -> NoStepRows] :
          Matched(n, Table("mentions", MentionCols \ {"step"}, rows))
    \/ \E n \in 1..2, m \in 1..MaxRows : \E rows \in [1..m -> TimeRows] :
          Matched(n, Table("routine", RoutineCols, rows))
    \/ \E n \in MaxItems..MaxOwned :
          \E u1 \in 1..MaxItems, s1 \in 0..MaxSteps, u2 \in 1..MaxItems, s2 \in 0..MaxSteps :
             Matched(n, WideTable(u1, s1, u2, s2))
    \/ \E n \in 1..MaxItems :
          \E u \in 1..n, s \in MaxSteps..MaxDeep, t \in {100, 700} :
             Matched(n, DeepTable(u, s, t))
    \/ \E m \in 1..MaxRows : \E rows \in [1..m -> LateRows] :
          Matched(1, Table("routine", RoutineCols, rows))

NextRank == Intersect \/ RankVideos \/ Cards \/ Report

SpecRank == InitRank /\ [][NextRank]_vars

----------------------------------------------------------------------------
(* Properties of the pipeline specification (Spec) *)

\* positions at which match_kit_to_catalog has returned normally
PostMatch == pc \in {"intersect", "rank", "cards", "report", "done", "NoOverlap"}

\* positions at which the run of the script has ended
RunEnded == pc \in {"InvalidInput", "FrameError", "NoOverlap", "done"}

HasBrandCol(cols) == \E i \in 1..Len(cols) : lower(cols[i]) = lower(cBrand)

HasProductCol(cols) ==
    \E i \in 1..Len(cols) : lower(cols[i]) \in {lower(cProductName), lower(cProduct)}

\* the owned keys the kit gives at the current threshold
KitOwnedKeys ==
    OwnedKeys(KeepRows(MatchAll(sim, catalog, kit_cols, kit_rows), min_score))

\* C2: whenever no content mention has its key in the owned-key set (in
\* particular when the kit gives no accepted match), the run ends in NoOverlap,
\* without an error and with no ranking, complementary list or report.
NoOverlapTerminal ==
    ( /\ pc \in {"FrameError", "NoOverlap", "rank", "cards", "report", "done"}
      /\ HitsOf(WithSec(content_df), KitOwnedKeys) = <<>> )
    => (pc = "NoOverlap" /\ rank = <<>> /\ cards = <<>> /\ report = <<>>)

\* C9: match_kit_to_catalog fails exactly when the header has no brand column or
\* no product column (by exact or case-insensitive name); a failed upload leaves
\* no match results, owned keys or ranking; with both columns it does not fail.
KitColumnValidation ==
    pc \notin {"idle", "await_kit", "match"} =>
        /\ (pc = "InvalidInput") <=> ~(HasBrandCol(kit_cols) /\ HasProductCol(kit_cols))
        /\ pc = "InvalidInput" =>
              (matched_all = <<>> /\ matched_keep = <<>> /\ owned_keys = {} /\ rank = <<>>)
        /\ (HasBrandCol(kit_cols) /\ HasProductCol(kit_cols)) => pc # "FrameError"

\* C6: of two runs on the same kit and catalog, the one with the higher
\* threshold accepts a subset of what the other accepts, and both have the same
\* full result list.
MatchingMonotone ==
    (PostMatch /\ prev.outcome \in {"NoOverlap", "done"}) =>
        /\ matched_all = prev.all
        /\ prev.t <= min_score => Range(matched_keep) \subseteq Range(prev.keep)
        /\ min_score <= prev.t => Range(prev.keep) \subseteq Range(matched_keep)

\* a run at a higher threshold that dropped an accepted match and kept another
MatchingMonotoneWitness ==
    /\ pc = "done"
    /\ prev.outcome = "done"
    /\ prev.t < min_score
    /\ matched_keep # <<>>
    /\ Len(matched_keep) < Len(prev.keep)

\* the search string of a result row, rebuilt from the kit fields it records
QueryOf(r) == canon(lower(r.PName \o Space \o r.PType))

\* catalog positions whose brand is the kit entry's brand, case-insensitively
BrandIdx(r) == {j \in 1..Len(catalog) : lower(catalog[j].Brand_n) = lower(r.Brand)}

Candidates(r) == IF BrandIdx(r) = {} THEN 1..Len(catalog) ELSE BrandIdx(r)

SimOf(r, j) == sim[<<QueryOf(r), catalog[j].prod_l>>]

\* j is the first candidate, in catalog order, with the highest score
IsFirstBest(r, j) ==
    /\ j \in Candidates(r)
    /\ \A k \in Candidates(r) :
          /\ SimOf(r, k) <= SimOf(r, j)
          /\ k < j => SimOf(r, k) < SimOf(r, j)

\* C8: each kit entry is matched to the first best-scoring entry of its pool (the
\* catalog entries of its brand, or the whole catalog when there are none); so
\* when the catalog has the brand, the matched brand is the kit brand up to case.
PoolAndBestMatch ==
    PostMatch =>
        \A i \in 1..Len(matched_all) :
            LET r == matched_all[i]
            IN /\ Candidates(r) # {} =>
                    \E j \in Candidates(r) :
                        /\ IsFirstBest(r, j)
                        /\ r.MBrand = catalog[j].Brand_n
                        /\ r.MPName = catalog[j].PName_n
                        /\ r.MPType = catalog[j].PType_n
               /\ BrandIdx(r) # {} => lower(r.MBrand) = lower(r.Brand)

\* one kit entry met a tie between different entries of the full catalog,
\* another was matched within a brand pool smaller than the catalog
PoolAndBestMatchWitness ==
    /\ PostMatch
    /\ \E i \in 1..Len(matched_all) :
          LET r == matched_all[i]
          IN /\ BrandIdx(r) = {}
             /\ \E j, k \in Candidates(r) :
                   /\ j < k
                   /\ IsFirstBest(r, j)
                   /\ SimOf(r, k) = SimOf(r, j)
                   /\ catalog[j].prod_l # catalog[k].prod_l
    /\ \E i \in 1..Len(matched_all) :
          LET r == matched_all[i]
          IN BrandIdx(r) # {} /\ BrandIdx(r) # 1..Len(catalog)

----------------------------------------------------------------------------
(* Properties of the ranking specification (SpecRank) *)

Ranked == pc \in {"cards", "report", "done"}

\* the hits of video v, and the distinct keys and step values among them
HitIdx(v) == {i \in 1..Len(hits) : hits[i].videoId = v}

HitKeys(v) == {hits[i].key : i \in HitIdx(v)}

HitStepValues(v) == {hits[i].step : i \in HitIdx(v)} \ {StepNaN, ""}

Abs(x) == IF x < 0 THEN -x ELSE x

\* C3: every ranked video has 0 <= coverage <= 1, coverage being the number of
\* distinct keys among its hits over max(1, |ownedKeys|) (to the nearest
\* thousandth), and usedItems never exceeds |ownedKeys|.
CoverageBound ==
    Ranked =>
        \A k \in 1..Len(rank) :
            LET n == Cardinality(HitKeys(rank[k].videoId))
                den == IF owned_keys = {} THEN 1 ELSE Cardinality(owned_keys)
            IN /\ 0 <= rank[k].coverage
               /\ rank[k].coverage <= 1000
               /\ rank[k].used_items = n
               /\ rank[k].used_items <= Cardinality(owned_keys)
               /\ 2 * Abs(rank[k].coverage * den - 1000 * n) <= den

\* a ranking with a fully covering video and a partly covering one
CoverageBoundWitness ==
    /\ pc = "done"
    /\ \E k \in 1..Len(rank) : rank[k].used_items >= 2 /\ rank[k].coverage = 1000
    /\ \E k \in 1..Len(rank) : rank[k].coverage > 0 /\ rank[k].coverage < 1000

\* the content rows of video v whose key is not owned
OtherIdx(v) ==
    {i \in 1..Len(content_df) :
        content_df[i].videoId = v /\ content_df[i].key \notin owned_keys}

\* the complementary lists, on screen and in the report, of the k-th ranked video
ListsOf(k) == {cards[k].comps, report[k].comps}

ComplementsDeduplicated ==
    pc = "done" =>
        \A k \in 1..Len(rank) :
            \A l \in ListsOf(k) :
                \A e, f \in 1..Len(l) : l[e].key = l[f].key => e = f

\* a ranked video mentions one product that is not owned twice, once with a
\* time and once without, and lists it once
ComplementsDeduplicatedWitness ==
    /\ pc = "done"
    /\ \E k \in 1..Len(rank) :
          /\ Len(cards[k].comps) = 1
          /\ \E i, j \in OtherIdx(rank[k].videoId) :
                /\ i # j
                /\ content_df[i].key = content_df[j].key
                /\ to_float(content_df[i].time) = NaN
                /\ to_float(content_df[j].time) # NaN

\* the exact score of video v, over ScoreDen(CoverageDen(owned_keys))
ExactScoreNum(v) ==
    LET g == GroupOf(hits, v)
    IN ScoreNum(Cardinality(HitKeys(v)), UsedSteps(g), CoverageDen(owned_keys), EarlyBoost100(g))

\* C7 as stated: adjacent videos are in descending order of the exact score
\* (0.7*coverage + 0.3*(usedSteps/10)) * earlyBoost, ties in descending usedItems.
RankingOrderExact ==
    Ranked =>
        \A k \in 1..(Len(rank) - 1) :
            /\ ExactScoreNum(rank[k].videoId) >= ExactScoreNum(rank[k + 1].videoId)
            /\ ExactScoreNum(rank[k].videoId) = ExactScoreNum(rank[k + 1].videoId)
                  => rank[k].used_items >= rank[k + 1].used_items

\* C7 amended: adjacent videos are in descending order of the score rounded to
\* three decimals, ties in descending usedItems; the rounded score is within
\* half a thousandth of (0.7*coverage + 0.3*(usedSteps/10)) * earlyBoost.
RankingOrderRounded ==
    Ranked =>
        /\ \A k \in 1..(Len(rank) - 1) :
              /\ rank[k].score >= rank[k + 1].score
              /\ rank[k].score = rank[k + 1].score
                    => rank[k].used_items >= rank[k + 1].used_items
        /\ \A k \in 1..Len(rank) :
              LET den == ScoreDen(CoverageDen(owned_keys))
              IN 2 * Abs(rank[k].score * den - ExactScoreNum(rank[k].videoId)) <= den

\* two videos with the same rounded score: the one seen second has more items
\* and is ranked first
RankingOrderRoundedWitness ==
    /\ Ranked
    /\ Len(rank) = 2
    /\ rank[1].score = rank[2].score
    /\ rank[1].used_items > rank[2].used_items
    /\ VideoOrder(hits) = <<rank[2].videoId, rank[1].videoId>>

\* C10: usedSteps is the number of distinct step values among the hits of the
\* video, and equals usedItems when no hit of the video has a step value (also
\* when the content has no step column).
UsedStepsFallback ==
    Ranked =>
        \A k \in 1..Len(rank) :
            LET v == rank[k].videoId
            IN IF HitStepValues(v) = {}
               THEN rank[k].used_steps = rank[k].used_items
               ELSE rank[k].used_steps = Cardinality(HitStepValues(v))

\* the number of steps at which the depth term is said to stop growing
DepthCap == 10

\* the score of video v with its steps counted up to DepthCap only
CappedScoreNum(v) ==
    LET g == GroupOf(hits, v)
    IN ScoreNum(Cardinality(HitKeys(v)), Min(UsedSteps(g), DepthCap),
                CoverageDen(owned_keys), EarlyBoost100(g))

\* C11: the depth contribution of usedSteps is capped at 10 steps: a video with
\* more than 10 distinct steps scores as one with exactly 10, so its score is
\* (0.7*coverage + 0.3*(min(usedSteps,10)/10)) * earlyBoost (to the nearest
\* thousandth) and never exceeds (0.7 + 0.3) * 1.15.
DepthCapped ==
    Ranked =>
        \A k \in 1..Len(rank) :
            LET den == ScoreDen(CoverageDen(owned_keys))
            IN /\ 2 * Abs(rank[k].score * den - CappedScoreNum(rank[k].videoId)) <= den
               /\ rank[k].score <= 1150

\* the mentions of video v that are not owned, with their sec
OtherMentions(v) == {WithSec(content_df)[i] : i \in OtherIdx(v)}

Defined(r) == r.sec # NaN

\* mention a is earlier than mention b: a time before no time, then by time,
\* then by row
EarlierMention(a, b) ==
    \/ Defined(a) /\ ~Defined(b)
    \/ Defined(a) /\ Defined(b) /\ a.sec < b.sec
    \/ (Defined(a) <=> Defined(b)) /\ (Defined(a) => a.sec = b.sec) /\ a.row < b.row

\* C12: each complementary list is in ascending timestamp order, every
\* entry without a defined timestamp after all entries with one, and the entry
\* kept for a key is the earliest mention of that key in this order.
ComplementsByTime ==
    pc = "done" =>
        \A k \in 1..Len(rank) :
            \A l \in ListsOf(k) :
                /\ \A e, f \in 1..Len(l) : e < f => EarlierMention(l[e], l[f])
                /\ \A e \in 1..Len(l) :
                      /\ l[e] \in OtherMentions(rank[k].videoId)
                      /\ \A r \in OtherMentions(rank[k].videoId) :
                            r.key = l[e].key => ~EarlierMention(r, l[e])

\* the time cells of the hits of video v that hold a number, as the file has them
HitTimes(v) ==
    LET Numeric(r) == content_df[r.row].time \notin {NaN, TextCell, NoneVal}
        d == SelectSeq(GroupOf(hits, v), Numeric)
    IN [i \in 1..Len(d) |-> content_df[d[i].row].time]

\* the k-th value of T in ascending order
Nth(T, k) ==
    CHOOSE x \in Range(T) :
        /\ Cardinality({i \in 1..Len(T) : T[i] < x}) < k
        /\ Cardinality({i \in 1..Len(T) : T[i] <= x}) >= k

\* twice the median of a non-empty T
TwiceMedian(T) == Nth(T, (Len(T) + 1) \div 2) + Nth(T, Len(T) \div 2 + 1)

\* earlyBoost as claimed, in hundredths
BoostOf(v) ==
    IF HitTimes(v) # <<>> /\ TwiceMedian(HitTimes(v)) < 2 * 600 THEN 115 ELSE 100

\* C13: earlyBoost of a video is 1.15 exactly when some hit has a defined
\* timestamp and the median of the defined timestamps of its hits is strictly
\* below 600 seconds, and 1.0 otherwise (median 600 or more, or no defined
\* timestamp; a non-numeric time is undefined, not 0): the stored score is
\* (0.7*coverage + 0.3*(usedSteps/10)) times that boost, to the nearest
\* thousandth.
EarlyBoostRule ==
    Ranked =>
        \A k \in 1..Len(rank) :
            LET den == ScoreDen(CoverageDen(owned_keys))
                exact == ScoreNum(rank[k].used_items, rank[k].used_steps,
                                  CoverageDen(owned_keys), BoostOf(rank[k].videoId))
            IN 2 * Abs(rank[k].score * den - exact) <= den

\* a ranked video whose hits have the median timestamp 600 exactly, over two
\* hits, and whose score carries no boost
EarlyBoostRuleWitness ==
    /\ Ranked
    /\ \E k \in 1..Len(rank) :
          LET T == HitTimes(rank[k].videoId)
              den == ScoreDen(CoverageDen(owned_keys))
          IN /\ Len(T) = 2
             /\ TwiceMedian(T) = 2 * 600
             /\ rank[k].score * den =
                   ScoreNum(rank[k].used_items, rank[k].used_steps,
                            CoverageDen(owned_keys), 100)

====
